---- MODULE Spec2Model ----
(***************************************************************************)
(* The admission handler of pkg/webhook/mutation.go: mutationHandler.Handle *)
(* and the functions it calls (isGkServiceAccount, isGatekeeperResource,    *)
(* skipExcludedNamespace, reviewRequest, tracingLevel, getConfig,           *)
(* getDenyMessages).  One invocation of Handle is followed statement by     *)
(* statement; pc is the position of the invocation.  The object store, the  *)
(* evaluation engine and the payload decoder are external: every result     *)
(* they can hand back is a nondeterministic choice.                         *)
(*                                                                         *)
(* Values that are pointers or interfaces in the source carry a flag for    *)
(* nil (nil, set, present) so that every value of a kind is a record of the *)
(* same shape.                                                              *)
(***************************************************************************)
EXTENDS Naturals, Sequences, FiniteSets, TLC

VARIABLES
    h,                   \* the mutationHandler: reporter, client, injectedConfig
    logDenies,           \* flag --log-denies
    emitAdmissionEvents, \* flag --emit-admission-events
    processExcluder,     \* h.processExcluder: stage -> excluded namespaces
    pc,                  \* position of the invocation of Handle
    req,                 \* the admission.Request of the invocation
    deferred,            \* the deferred reporting closure is registered
    requestResponse,     \* the outcome tag captured by the closure
    reported,            \* tags handed to reporter.ReportMutationRequest
    response,            \* the admission.Response returned by Handle
    tracing,             \* (trace, dump) of tracingLevel
    resp,                \* results of the engine's Review
    err,                 \* error returned by reviewRequest
    calls,               \* calls to the object store and the engine, in order
    diag,                \* diagnostic log lines (trace dump, state dump, errors)
    violationLogs,       \* "denied admission" log entries of getDenyMessages
    events,              \* events handed to h.eventRecorder
    decodes,             \* number of deserializer.Decode calls
    parked               \* the locals of another invocation of Handle, not running

vars == <<h, logDenies, emitAdmissionEvents, processExcluder, pc, req, deferred,
          requestResponse, reported, response, tracing, resp, err, calls, diag,
          violationLogs, events, decodes, parked>>

config == <<h, logDenies, emitAdmissionEvents, processExcluder>>

----------------------------------------------------------------------------
(* Bounds *)

\* longest result list the engine returns
MaxResults == 2

\* longest list of trace specs a config carries when tracingLevel is checked
\* on its own
MaxTraces == 2

----------------------------------------------------------------------------
(* Constants of the source *)

mutationErrorResponse == "error"
mutationDenyResponse == "deny"
mutationAllowResponse == "allow"
mutationSkipResponse == "skip"
mutationUnknownResponse == "unknown"

StatusOK == 200
StatusForbidden == 403
StatusInternalServerError == 500

serviceAccountName == "gatekeeper-admin"

\* util.GetNamespace(): the namespace the platform runs in
gkNamespace == "gatekeeper-system"

\* mutant: the identity is built without the namespace
serviceaccount_noNamespace == "system:serviceaccount:" \o serviceAccountName

\* fmt.Sprintf("system:serviceaccount:%s:%s", util.GetNamespace(), serviceAccountName)
serviceaccount == "system:serviceaccount:" \o gkNamespace \o ":" \o serviceAccountName

----------------------------------------------------------------------------
(* Errors *)

NoError == [set |-> FALSE, notFound |-> FALSE, text |-> ""]

NewError(t) == [set |-> TRUE, notFound |-> FALSE, text |-> t]

NotFoundError(t) == [set |-> TRUE, notFound |-> TRUE, text |-> t]

\* k8serrors.IsNotFound
IsNotFound(e) == e.set /\ e.notFound

ErrNamespaceNotFound == NotFoundError("namespaces not found")

ErrStore == NewError("context deadline exceeded")

ErrEngine == NewError("admission.k8s.gatekeeper.sh: rego_eval_error")

\* context.Canceled, returned by a call whose context was cancelled
ErrCanceled == NewError("context canceled")

ErrConfigNotFound == NotFoundError("configs.config.gatekeeper.sh not found")

ErrNoClient == NewError("no client available to retrieve validation config")

----------------------------------------------------------------------------
(* Requests *)

GVK(g, v, k) == [group |-> g, version |-> v, kind |-> k]

PodKind == GVK("", "v1", "Pod")

NamespaceKind == GVK("", "v1", "Namespace")

TemplateKind == GVK("templates.gatekeeper.sh", "v1beta1", "ConstraintTemplate")

ConstraintKind == GVK("constraints.gatekeeper.sh", "v1beta1", "K8sRequiredLabels")

Kinds == {PodKind, NamespaceKind, TemplateKind, ConstraintKind}

Operations == {"CREATE", "UPDATE", "DELETE"}

\* the platform's own service identity and a user
Usernames == {"system:serviceaccount:gatekeeper-system:gatekeeper-admin", "alice"}

Namespaces == {"", "kube-system"}

\* req.AdmissionRequest.Object.Raw: nil, bytes the deserializer rejects, or
\* bytes of an object whose metadata.name is name
NilRaw == [nil |-> TRUE, decodable |-> FALSE, name |-> ""]

BadRaw == [nil |-> FALSE, decodable |-> FALSE, name |-> ""]

GoodRaw(n) == [nil |-> FALSE, decodable |-> TRUE, name |-> n]

\* (name, payload) of the requests: a name given by the client, or none with
\* no payload, a broken payload, or a payload carrying a name
NamedObjects ==
    { [name |-> "web", object |-> GoodRaw("web")],
      [name |-> "", object |-> NilRaw],
      [name |-> "", object |-> BadRaw],
      [name |-> "", object |-> GoodRaw("web-x7k")] }

Requests ==
    { [operation |-> op, userInfo |-> [username |-> u], kind |-> k,
       namespace |-> ns, name |-> o.name, object |-> o.object] :
        op \in Operations, u \in Usernames, k \in Kinds, ns \in Namespaces,
        o \in NamedObjects }

NoRequest ==
    [operation |-> "", userInfo |-> [username |-> ""], kind |-> GVK("", "", ""),
     namespace |-> "", name |-> "", object |-> NilRaw]

----------------------------------------------------------------------------
(* DynamicConfig: v1alpha1.Config, of which the handler reads           *)
(* Spec.Validation.Traces                                               *)

Trace(u, k, d) == [user |-> u, kind |-> k, dump |-> d]

Config(traces) == [nil |-> FALSE, traces |-> traces]

\* a nil *v1alpha1.Config
NilConfig == [nil |-> TRUE, traces |-> <<>>]

\* &v1alpha1.Config{}
EmptyConfig == Config(<<>>)

\* the configs the object store may hold
StoredConfigs ==
    { EmptyConfig,
      Config(<<Trace("alice", PodKind, "")>>),
      Config(<<Trace("bob", PodKind, "All"), Trace("alice", PodKind, "all")>>) }

\* the configs a test may inject
InjectedConfigs == { Config(<<Trace("alice", PodKind, "ALL")>>) }

\* strings.ToLower over the dump levels in use
ToLower(s) ==
    CASE s = "All" -> "all"
      [] s = "ALL" -> "all"
      [] OTHER -> s

\* strings.EqualFold
EqualFold(s, t) == ToLower(s) = ToLower(t)

----------------------------------------------------------------------------
(* Results of the evaluation engine: rtypes.Result *)

Result(action, name, msg) ==
    [EnforcementAction |-> action, Constraint |-> [name |-> name, kind |-> "K8sRequiredLabels"],
     Msg |-> msg]

Results ==
    { Result("deny", "no-privileged", "privileged containers forbidden"),
      Result("deny", "need-owner", "missing label owner"),
      Result("dryrun", "need-team", "missing label team"),
      Result("warn", "no-latest", "image tag latest") }

\* the sequences over S of length at most n
SeqUpTo(S, n) == UNION { [1..k -> S] : k \in 0..n }

ResultLists == SeqUpTo(Results, MaxResults)

----------------------------------------------------------------------------
(* Pure functions of the handler *)

\* common.go: isGkServiceAccount
isGkServiceAccount(user) == user.username = serviceaccount

\* mutant: only connect requests are let through unevaluated
notCreateOrUpdate_connectOnly(r) == r.operation = "CONNECT"

\* the operation test of Handle: the request is neither a create nor an update
notCreateOrUpdate(r) == r.operation # "CREATE" /\ r.operation # "UPDATE"

\* mutant: the constraints group is forgotten
isGatekeeperResource_templatesOnly(r) == r.kind.group = "templates.gatekeeper.sh"

isGatekeeperResource(r) ==
    \/ r.kind.group = "templates.gatekeeper.sh"
    \/ r.kind.group = "constraints.gatekeeper.sh"

\* process.Excluder.IsNamespaceExcluded: membership in the stage's exclusion set
IsNamespaceExcluded(excluder, stage, namespace) == namespace \in excluder[stage]

\* mutant: the exclusion set of another stage is consulted
skipExcludedNamespace_auditStage(namespace) ==
    IsNamespaceExcluded(processExcluder, "audit", namespace)

skipExcludedNamespace(namespace) ==
    IsNamespaceExcluded(processExcluder, "webhook", namespace)

\* admission.ValidationResponse: the code follows allowed, the reason is kept
ValidationResponse(allowed, reason) ==
    [present |-> TRUE, allowed |-> allowed,
     code |-> IF allowed THEN StatusOK ELSE StatusForbidden, reason |-> reason]

NoResponse == [present |-> FALSE, allowed |-> FALSE, code |-> 0, reason |-> ""]

\* vResp.Result.Code = code
WithCode(r, code) == [r EXCEPT !.code = code]

\* mutant: the dump level of the last matching spec wins
traceStep_lastWins(level, trace, r) ==
    IF trace.user # r.userInfo.username
    THEN level
    ELSE IF GVK(r.kind.group, r.kind.version, r.kind.kind) = trace.kind
         THEN [trace |-> TRUE, dump |-> EqualFold(trace.dump, "All")]
         ELSE level

\* the loop body of tracingLevel: the directive after one more trace spec
traceStep(level, trace, r) ==
    IF trace.user # r.userInfo.username
    THEN level
    ELSE IF GVK(r.kind.group, r.kind.version, r.kind.kind) = trace.kind
         THEN [trace |-> TRUE,
               dump |-> IF EqualFold(trace.dump, "All") THEN TRUE ELSE level.dump]
         ELSE level

RECURSIVE traceLoop(_, _, _)
traceLoop(level, traces, r) ==
    IF traces = <<>> THEN level
    ELSE traceLoop(traceStep(level, Head(traces), r), Tail(traces), r)

\* tracingLevel over a config that is not nil: (traceEnabled, dump)
tracingLevel(cfg, r) == traceLoop([trace |-> FALSE, dump |-> FALSE], cfg.traces, r)

\* reviewRequest: server-side apply requests for a Namespace lose their namespace
reviewNamespace(r) ==
    IF r.kind.kind = "Namespace" /\ r.kind.group = "" THEN "" ELSE r.namespace

\* mutant: the payload is decoded even when the request carries a name
decodesObject_whateverName(res, r) ==
    /\ Len(res) > 0
    /\ logDenies \/ emitAdmissionEvents
    /\ ~r.object.nil

\* getDenyMessages: the payload is decoded to find the name of the resource
decodesObject(res, r) ==
    /\ Len(res) > 0
    /\ logDenies \/ emitAdmissionEvents
    /\ r.name = ""
    /\ ~r.object.nil

resourceNameOf(res, r) ==
    IF Len(res) > 0 /\ (logDenies \/ emitAdmissionEvents)
    THEN IF decodesObject(res, r)
         THEN IF r.object.decodable THEN r.object.name ELSE ""
         ELSE r.name
    ELSE ""

\* fmt.Sprintf("[denied by %s] %s", r.Constraint.GetName(), r.Msg)
denyMessage(r) == "[denied by " \o r.Constraint.name \o "] " \o r.Msg

\* mutant: only a deny counts as a violation to log and emit
isViolation_denyOnly(r) == r.EnforcementAction = "deny"

isViolation(r) == r.EnforcementAction = "deny" \/ r.EnforcementAction = "dryrun"

\* mutant: a dryrun violation blocks as a deny does
promptsDeny_dryrunToo(r) ==
    r.EnforcementAction = "deny" \/ r.EnforcementAction = "dryrun"

promptsDeny(r) == r.EnforcementAction = "deny"

\* mutant: each message is put in front of the list
RECURSIVE denyLoop_prepend(_)
denyLoop_prepend(res) ==
    IF res = <<>> THEN <<>>
    ELSE denyLoop_prepend(Tail(res))
         \o (IF promptsDeny(Head(res)) THEN <<denyMessage(Head(res))>> ELSE <<>>)

RECURSIVE denyLoop(_)
denyLoop(res) ==
    IF res = <<>> THEN <<>>
    ELSE (IF promptsDeny(Head(res)) THEN <<denyMessage(Head(res))>> ELSE <<>>)
         \o denyLoop(Tail(res))

\* getDenyMessages: the messages returned
getDenyMessages(res, r) == denyLoop(res)

violationLog(x, r, resourceName) ==
    [constraint_name |-> x.Constraint.name, constraint_action |-> x.EnforcementAction,
     resource_kind |-> r.kind.kind, resource_namespace |-> r.namespace,
     resource_name |-> resourceName, request_username |-> r.userInfo.username]

RECURSIVE logLoop(_, _, _)
logLoop(res, r, resourceName) ==
    IF res = <<>> THEN <<>>
    ELSE (IF isViolation(Head(res)) /\ logDenies
          THEN <<violationLog(Head(res), r, resourceName)>> ELSE <<>>)
         \o logLoop(Tail(res), r, resourceName)

violationEvent(x, r, resourceName) ==
    [type |-> "Warning",
     reason |-> IF x.EnforcementAction = "dryrun" THEN "DryrunViolation"
                ELSE "FailedAdmission",
     constraint_name |-> x.Constraint.name, resource_name |-> resourceName,
     resource_namespace |-> r.namespace, message |-> x.Msg]

RECURSIVE eventLoop(_, _, _)
eventLoop(res, r, resourceName) ==
    IF res = <<>> THEN <<>>
    ELSE (IF isViolation(Head(res)) /\ emitAdmissionEvents
          THEN <<violationEvent(Head(res), r, resourceName)>> ELSE <<>>)
         \o eventLoop(Tail(res), r, resourceName)

\* strings.Join
RECURSIVE Join(_, _)
Join(elems, sep) ==
    IF elems = <<>> THEN ""
    ELSE IF Len(elems) = 1 THEN Head(elems)
    ELSE Head(elems) \o sep \o Join(Tail(elems), sep)

----------------------------------------------------------------------------
(* The handler and its environment *)

Handlers ==
    [reporter : BOOLEAN, client : BOOLEAN,
     injectedConfig : {NilConfig} \cup InjectedConfigs]

\* the exclusion sets of the process, by stage
Excluders ==
    { [webhook |-> {}, audit |-> {"kube-system"}],
      [webhook |-> {"kube-system"}, audit |-> {}] }

\* a call to the object store or the engine, with the error it returned
Call(op, e) == [op |-> op, err |-> e]

\* mutant: any error of the cached read leads to the uncached read
fallsBack_anyError(e) == e.set

\* reviewRequest: the error of the cached read that leads to the uncached read
fallsBack(e) == IsNotFound(e)

\* what h.client.Get and h.reader.Get may return for a Namespace
NamespaceReads == {NoError, ErrNamespaceNotFound, ErrStore, ErrCanceled}

\* what h.opa.Review may return: a response with its results, or an error
\* next to a response without results
Reviews ==
    { [results |-> l, err |-> NoError] : l \in ResultLists }
        \cup { [results |-> <<>>, err |-> e] : e \in {ErrEngine, ErrCanceled} }

\* getConfig: the injected config, or an error when there is no client, or
\* whatever the read of the config object gives (the config on success, the
\* zero config next to the error otherwise)
getConfig ==
    IF ~h.injectedConfig.nil
    THEN { [cfg |-> h.injectedConfig, err |-> NoError, read |-> FALSE] }
    ELSE IF ~h.client
    THEN { [cfg |-> NilConfig, err |-> ErrNoClient, read |-> FALSE] }
    ELSE { [cfg |-> c, err |-> NoError, read |-> TRUE] : c \in StoredConfigs }
            \cup { [cfg |-> EmptyConfig, err |-> e, read |-> TRUE] :
                    e \in {ErrConfigNotFound, ErrStore, ErrCanceled} }

\* the variables that are locals of Handle and reviewRequest, one set for
\* each invocation
Locals ==
    [pc |-> pc, req |-> req, deferred |-> deferred,
     requestResponse |-> requestResponse, response |-> response,
     tracing |-> tracing, resp |-> resp, err |-> err, calls |-> calls,
     decodes |-> decodes]

\* the locals of an invocation that has not begun
IdleLocals ==
    [pc |-> "idle", req |-> NoRequest, deferred |-> FALSE,
     requestResponse |-> "none", response |-> NoResponse,
     tracing |-> [trace |-> FALSE, dump |-> FALSE], resp |-> <<>>,
     err |-> NoError, calls |-> <<>>, decodes |-> 0]

Init ==
    /\ h \in Handlers
    /\ logDenies \in BOOLEAN
    /\ emitAdmissionEvents \in BOOLEAN
    /\ processExcluder \in Excluders
    /\ pc = "idle"
    /\ req = NoRequest
    /\ deferred = FALSE
    /\ requestResponse = "none"
    /\ reported = <<>>
    /\ response = NoResponse
    /\ tracing = [trace |-> FALSE, dump |-> FALSE]
    /\ resp = <<>>
    /\ err = NoError
    /\ calls = <<>>
    /\ diag = <<>>
    /\ violationLogs = <<>>
    /\ events = <<>>
    /\ decodes = 0
    /\ parked = IdleLocals

\* the deferred closure of Handle, run when Handle is left with outcome tag
reportDeferred(tag) ==
    IF deferred /\ h.reporter THEN Append(reported, tag) ELSE reported

\* return rsp from Handle, the outcome tag being tag
Return(rsp, tag) ==
    /\ pc' = "returned"
    /\ response' = rsp
    /\ requestResponse' = tag
    /\ reported' = reportDeferred(tag)

\* a nil dereference: Handle is left by a panic, the deferred closure runs
Panic ==
    /\ pc' = "panicked"
    /\ reported' = reportDeferred(requestResponse)
    /\ UNCHANGED <<response, requestResponse>>

\* the host calls Handle with request r
HandleStart(r) ==
    /\ pc = "idle"
    /\ req' = r
    /\ pc' = "isGkServiceAccount"
    /\ UNCHANGED <<config, parked, deferred, requestResponse, reported, response, tracing,
                   resp, err, calls, diag, violationLogs, events, decodes>>

SelfManagementCheck ==
    /\ pc = "isGkServiceAccount"
    /\ IF isGkServiceAccount(req.userInfo)
       THEN Return(ValidationResponse(TRUE, "Gatekeeper does not self-manage"),
                   requestResponse)
       ELSE /\ pc' = "operation"
            /\ UNCHANGED <<response, requestResponse, reported>>
    /\ UNCHANGED <<config, parked, req, deferred, tracing, resp, err, calls, diag,
                   violationLogs, events, decodes>>

OperationCheck ==
    /\ pc = "operation"
    /\ IF notCreateOrUpdate(req)
       THEN Return(ValidationResponse(TRUE, "Mutating only on create"),
                   requestResponse)
       ELSE /\ pc' = "isGatekeeperResource"
            /\ UNCHANGED <<response, requestResponse, reported>>
    /\ UNCHANGED <<config, parked, req, deferred, tracing, resp, err, calls, diag,
                   violationLogs, events, decodes>>

\* the own-resource test, and after it the registration of the deferred closure
GatekeeperResourceCheck ==
    /\ pc = "isGatekeeperResource"
    /\ IF isGatekeeperResource(req)
       THEN /\ Return(ValidationResponse(TRUE, "Not mutating gatekeeper resources"),
                      requestResponse)
            /\ UNCHANGED deferred
       ELSE /\ pc' = "skipExcludedNamespace"
            /\ requestResponse' = mutationUnknownResponse
            /\ deferred' = TRUE
            /\ UNCHANGED <<response, reported>>
    /\ UNCHANGED <<config, parked, req, tracing, resp, err, calls, diag, violationLogs,
                   events, decodes>>

ExcludedNamespaceCheck ==
    /\ pc = "skipExcludedNamespace"
    /\ IF skipExcludedNamespace(req.namespace)
       THEN Return(ValidationResponse(TRUE,
                       "Namespace is set to be ignored by Gatekeeper config"),
                   mutationSkipResponse)
       ELSE /\ pc' = "tracingLevel"
            /\ UNCHANGED <<response, requestResponse, reported>>
    /\ UNCHANGED <<config, parked, req, deferred, tracing, resp, err, calls, diag,
                   violationLogs, events, decodes>>

\* reviewRequest, first statement: tracingLevel reads the config and ignores
\* the error of getConfig; the namespace coercion follows
TracingLevel ==
    /\ pc = "tracingLevel"
    /\ \E got \in getConfig :
        /\ calls' = IF got.read THEN Append(calls, Call("client.Get config", got.err))
                    ELSE calls
        /\ IF got.cfg.nil
           THEN Panic /\ UNCHANGED tracing
           ELSE /\ tracing' = tracingLevel(got.cfg, req)
                /\ pc' = IF reviewNamespace(req) # "" THEN "getNamespace" ELSE "review"
                /\ UNCHANGED <<response, requestResponse, reported>>
    /\ UNCHANGED <<config, parked, req, deferred, resp, err, diag, violationLogs, events,
                   decodes>>

\* mutant: a cached read that failed for another reason than NotFound is
\* issued again
GetNamespace_retry ==
    /\ pc = "getNamespace"
    /\ IF ~h.client
       THEN Panic /\ UNCHANGED <<calls, err>>
       ELSE \E e \in NamespaceReads :
            /\ calls' = Append(calls, Call("client.Get namespace", e))
            /\ IF ~e.set
               THEN pc' = "review" /\ UNCHANGED err
               ELSE IF ~fallsBack(e)
               THEN IF Len(calls) < 2
                    THEN pc' = "getNamespace" /\ UNCHANGED err
                    ELSE pc' = "result" /\ err' = e
               ELSE pc' = "getNamespaceUncached" /\ UNCHANGED err
            /\ UNCHANGED <<response, requestResponse, reported>>
    /\ UNCHANGED <<config, parked, req, deferred, tracing, resp, diag, violationLogs,
                   events, decodes>>

\* reviewRequest: the cached read of the namespace
GetNamespace ==
    /\ pc = "getNamespace"
    /\ IF ~h.client
       THEN Panic /\ UNCHANGED <<calls, err>>
       ELSE \E e \in NamespaceReads :
            /\ calls' = Append(calls, Call("client.Get namespace", e))
            /\ IF ~e.set
               THEN pc' = "review" /\ UNCHANGED err
               ELSE IF ~fallsBack(e)
               THEN pc' = "result" /\ err' = e
               ELSE pc' = "getNamespaceUncached" /\ UNCHANGED err
            /\ UNCHANGED <<response, requestResponse, reported>>
    /\ UNCHANGED <<config, parked, req, deferred, tracing, resp, diag, violationLogs,
                   events, decodes>>

\* mutant: an error of the uncached read is dropped and the review goes on
GetNamespaceUncached_proceeds ==
    /\ pc = "getNamespaceUncached"
    /\ \E e \in NamespaceReads :
        /\ calls' = Append(calls, Call("reader.Get namespace", e))
        /\ pc' = "review"
        /\ UNCHANGED err
    /\ UNCHANGED <<config, parked, req, deferred, requestResponse, reported, response,
                   tracing, resp, diag, violationLogs, events, decodes>>

\* reviewRequest: the read that bypasses the cache
GetNamespaceUncached ==
    /\ pc = "getNamespaceUncached"
    /\ \E e \in NamespaceReads :
        /\ calls' = Append(calls, Call("reader.Get namespace", e))
        /\ IF e.set
           THEN pc' = "result" /\ err' = e
           ELSE pc' = "review" /\ UNCHANGED err
    /\ UNCHANGED <<config, parked, req, deferred, requestResponse, reported, response,
                   tracing, resp, diag, violationLogs, events, decodes>>

\* mutant: the error of Dump is assigned to the err of reviewRequest
reviewRequestErr_dumpAssigns(reviewErr, dumped, dumpErr) ==
    IF dumped THEN dumpErr ELSE reviewErr

\* reviewRequest: the error it returns after the diagnostic block; the err of
\* "dump, err := h.opa.Dump(ctx)" is a new variable of the if block
reviewRequestErr(reviewErr, dumped, dumpErr) == reviewErr

\* reviewRequest: the engine's Review, the trace dump and the state dump
Review ==
    /\ pc = "review"
    /\ \E out \in Reviews, dumpFails \in IF tracing.dump THEN BOOLEAN ELSE {FALSE} :
        /\ resp' = out.results
        /\ err' = reviewRequestErr(out.err, tracing.dump,
                                    IF dumpFails THEN ErrEngine ELSE NoError)
        /\ calls' = calls \o <<Call("opa.Review", out.err)>>
                          \o (IF tracing.dump
                              THEN <<Call("opa.Dump",
                                          IF dumpFails THEN ErrEngine ELSE NoError)>>
                              ELSE <<>>)
        /\ diag' = diag \o (IF tracing.trace THEN <<"trace dump">> ELSE <<>>)
                        \o (IF tracing.dump
                            THEN IF dumpFails THEN <<"dump error">> ELSE <<"dump">>
                            ELSE <<>>)
    /\ pc' = "result"
    /\ UNCHANGED <<config, parked, req, deferred, requestResponse, reported, response,
                   tracing, violationLogs, events, decodes>>

\* mutant: the error path fails open, with the status of an internal error
HandleError_failOpen ==
    /\ pc = "result"
    /\ err.set
    /\ diag' = Append(diag, "error executing query")
    /\ Return(WithCode(ValidationResponse(TRUE, ""), StatusInternalServerError),
              mutationErrorResponse)
    /\ UNCHANGED <<config, parked, req, deferred, tracing, resp, err, calls, violationLogs,
                   events, decodes>>

\* Handle: reviewRequest returned an error
HandleError ==
    /\ pc = "result"
    /\ err.set
    /\ diag' = Append(diag, "error executing query")
    /\ Return(WithCode(ValidationResponse(FALSE, err.text), StatusInternalServerError),
              mutationErrorResponse)
    /\ UNCHANGED <<config, parked, req, deferred, tracing, resp, err, calls, violationLogs,
                   events, decodes>>

\* Handle: reviewRequest returned the results; getDenyMessages and the response
HandleResults ==
    /\ pc = "result"
    /\ ~err.set
    /\ LET msgs == getDenyMessages(resp, req)
           resourceName == resourceNameOf(resp, req)
       IN /\ decodes' = IF decodesObject(resp, req) THEN decodes + 1 ELSE decodes
          /\ violationLogs' = violationLogs \o logLoop(resp, req, resourceName)
          /\ events' = events \o eventLoop(resp, req, resourceName)
          /\ IF Len(msgs) > 0
             THEN Return(WithCode(ValidationResponse(FALSE, Join(msgs, "\n")),
                                  StatusForbidden),
                         mutationDenyResponse)
             ELSE Return(ValidationResponse(TRUE, ""), mutationAllowResponse)
    /\ UNCHANGED <<config, parked, req, deferred, tracing, resp, err, calls, diag>>

Next ==
    \/ \E r \in Requests : HandleStart(r)
    \/ SelfManagementCheck
    \/ OperationCheck
    \/ GatekeeperResourceCheck
    \/ ExcludedNamespaceCheck
    \/ TracingLevel
    \/ GetNamespace
    \/ GetNamespaceUncached
    \/ Review
    \/ HandleError
    \/ HandleResults

Spec == Init /\ [][Next]_vars

----------------------------------------------------------------------------
(* Vocabulary of the properties *)

\* Handle was left: it returned a response, or a panic unwound it
Left == pc \in {"returned", "panicked"}

\* the positions before the registration of the deferred closure
BeforeFilters == {"idle", "isGkServiceAccount", "operation", "isGatekeeperResource"}

\* the request is one the three first checks of Handle let through
PassesChecks(r) ==
    /\ r.userInfo.username # "system:serviceaccount:gatekeeper-system:gatekeeper-admin"
    /\ r.operation \in {"CREATE", "UPDATE"}
    /\ r.kind.group \notin {"templates.gatekeeper.sh", "constraints.gatekeeper.sh"}

\* the call op was made
Called(op) == \E i \in 1..Len(calls) : calls[i].op = op

\* the engine's Review was called and returned no error
ReviewSucceeded == \E i \in 1..Len(calls) : calls[i].op = "opa.Review" /\ ~calls[i].err.set

\* the positions of the deny results in the result list
DenyPositions(res) == { i \in 1..Len(res) : res[i].EnforcementAction = "deny" }

----------------------------------------------------------------------------
(* C1 *)

\* C1: when the request passed every filter and the namespace resolution and
\* the engine call succeeded, the response is a deny (allowed=false, status
\* 403, outcome tag deny) if and only if some result has the action deny;
\* without a deny result the response is allowed=true, whatever dryrun or
\* other results there are.
C1_DenyIffDenyResult ==
    (pc = "returned" /\ ReviewSucceeded) =>
        /\ (DenyPositions(resp) # {}) <=>
               (~response.allowed /\ response.code = 403 /\ requestResponse = "deny")
        /\ (DenyPositions(resp) = {}) =>
               (response.allowed /\ response.code = 200 /\ requestResponse = "allow")

\* a dryrun result next to a deny result: the request is denied
C1_Witness ==
    /\ pc = "returned"
    /\ ReviewSucceeded
    /\ Len(resp) = 2
    /\ resp[1].EnforcementAction = "dryrun"
    /\ resp[2].EnforcementAction = "deny"
    /\ ~response.allowed
    /\ response.code = 403

----------------------------------------------------------------------------
(* C2 *)

\* C2 as stated: whichever terminal state Handle reaches, the reporter's
\* recording call was executed exactly once (here for handlers that have a
\* reporter).
C2_ReportedOnceOnEveryExit ==
    (pc = "returned" /\ h.reporter) => Len(reported) = 1

\* What the code provides instead: with a reporter set, the recording call is
\* executed exactly once when Handle is left by a request that passed the
\* self-management, operation and own-resource checks (namespace exclusion,
\* error, deny, post-evaluation allow, or a panic), and not at all for a
\* request that one of these three checks short-circuits; it is never
\* executed twice, and never before Handle is left.
ReportedOncePastChecks ==
    /\ Len(reported) <= 1
    /\ ~Left => reported = <<>>
    /\ Left => (Len(reported) = 1 <=> (h.reporter /\ PassesChecks(req)))

----------------------------------------------------------------------------
(* C3 *)

\* the error that ended the namespace resolution or the evaluation, if any:
\* a cached read that failed other than by not-found, a failed uncached read,
\* or a failed Review
FailedCalls ==
    { i \in 1..Len(calls) :
        /\ calls[i].err.set
        /\ \/ calls[i].op = "client.Get namespace" /\ ~calls[i].err.notFound
           \/ calls[i].op = "reader.Get namespace"
           \/ calls[i].op = "opa.Review" }

\* C3: when the engine call returned an error or the namespace resolution
\* failed, Handle returns allowed=false with status 500 and the text of that
\* error as message, and the outcome tag is error; it never returns
\* allowed=true.
C3_FailClosed ==
    \A i \in FailedCalls :
        /\ pc \in {"result", "returned"}
        /\ pc = "returned" =>
            /\ response.present
            /\ ~response.allowed
            /\ response.code = 500
            /\ response.reason = calls[i].err.text
            /\ requestResponse = "error"
            /\ h.reporter => reported = <<"error">>

\* the engine failed and the request was answered with status 500
C3_Witness ==
    /\ pc = "returned"
    /\ \E i \in FailedCalls : calls[i].op = "opa.Review"
    /\ response.code = 500
    /\ ~response.allowed

----------------------------------------------------------------------------
(* C4 *)

\* C4: a call to the object store or to the engine is made only after the
\* self-management, operation and own-resource checks were evaluated and
\* passed; a request that one of them short-circuits makes no such call.
C4_NoCallBeforeChecks ==
    /\ calls # <<>> => (PassesChecks(req) /\ pc \notin BeforeFilters)
    /\ (Left /\ ~PassesChecks(req)) => calls = <<>>

\* a delete in a namespace that is not excluded, under a handler with a
\* client: answered without a call
C4_Witness ==
    /\ pc = "returned"
    /\ req.operation = "DELETE"
    /\ req.userInfo.username = "alice"
    /\ req.kind = PodKind
    /\ h.client
    /\ processExcluder.webhook = {}
    /\ calls = <<>>

----------------------------------------------------------------------------
(* C5 *)

\* C5: a request of the service identity
\* system:serviceaccount:<platform namespace>:gatekeeper-admin is answered
\* allowed=true with status 200, whatever its operation, kind and namespace,
\* the exclusion set, the store and the engine.
C5_ServiceAccountAllowed ==
    (/\ req.userInfo.username = "system:serviceaccount:gatekeeper-system:gatekeeper-admin"
     /\ pc \notin {"idle", "isGkServiceAccount"}) =>
        /\ pc = "returned"
        /\ response.present
        /\ response.allowed
        /\ response.code = 200
        /\ calls = <<>>

\* the service identity creates a Pod in a namespace that is not excluded
C5_Witness ==
    /\ pc = "returned"
    /\ req.userInfo.username = "system:serviceaccount:gatekeeper-system:gatekeeper-admin"
    /\ req.operation = "CREATE"
    /\ req.kind = PodKind
    /\ req.namespace = "kube-system"
    /\ processExcluder.webhook = {}
    /\ response.allowed

----------------------------------------------------------------------------
(* C6 *)

\* C6: a request whose operation is neither create nor update, or whose kind
\* is of the group templates.gatekeeper.sh or constraints.gatekeeper.sh, is
\* answered allowed=true with status 200; the engine is not asked.
C6_FilteredAllowed ==
    (/\ \/ req.operation \notin {"CREATE", "UPDATE"}
        \/ req.kind.group \in {"templates.gatekeeper.sh", "constraints.gatekeeper.sh"}
     /\ pc \notin BeforeFilters) =>
        /\ pc = "returned"
        /\ response.present
        /\ response.allowed
        /\ response.code = 200
        /\ ~Called("opa.Review")

\* a user creates a constraint in a namespace that is not excluded
C6_Witness ==
    /\ pc = "returned"
    /\ req.userInfo.username = "alice"
    /\ req.operation = "CREATE"
    /\ req.kind.group = "constraints.gatekeeper.sh"
    /\ processExcluder.webhook = {}
    /\ h.client
    /\ response.allowed
    /\ response.code = 200

----------------------------------------------------------------------------
(* C7 *)

\* the request's namespace is excluded for the webhook stage
NamespaceExcluded == req.namespace \in processExcluder.webhook

\* C7 as stated: every request whose namespace is in the webhook stage's
\* exclusion set is answered allowed=true, its recorded outcome is skip, and
\* no namespace read, config read or engine call is made (here for handlers
\* that have a reporter).
C7_ExcludedRecordedAsSkip ==
    (pc = "returned" /\ h.reporter /\ NamespaceExcluded) =>
        /\ response.allowed
        /\ reported = <<"skip">>
        /\ calls = <<>>

\* C7 amended: every request whose namespace is in the webhook stage's
\* exclusion set is answered allowed=true with no namespace read, config read
\* or engine call; its outcome tag is skip, and skip is what the reporter (when
\* the handler has one) records, when the request passed the self-management,
\* operation and own-resource checks.
C7_ExcludedSkipped ==
    (NamespaceExcluded /\ pc \notin BeforeFilters \cup {"skipExcludedNamespace"}) =>
        /\ pc = "returned"
        /\ response.allowed
        /\ response.code = 200
        /\ calls = <<>>
        /\ PassesChecks(req) =>
            /\ requestResponse = "skip"
            /\ h.reporter => reported = <<"skip">>

\* a user's create in an excluded namespace was recorded as skip
C7_Witness ==
    /\ pc = "returned"
    /\ NamespaceExcluded
    /\ req.operation = "CREATE"
    /\ req.kind = PodKind
    /\ response.allowed
    /\ reported = <<"skip">>
    /\ calls = <<>>

----------------------------------------------------------------------------
(* C8 *)

IsDeny(r) == r.EnforcementAction = "deny"

\* the message of the i-th deny result
C8_Message(r) == "[denied by " \o r.Constraint.name \o "] " \o r.Msg

\* the messages of the deny results D, in their order, with a newline between
RECURSIVE C8_Lines(_)
C8_Lines(D) ==
    IF Len(D) = 1 THEN C8_Message(D[1])
    ELSE C8_Lines(SubSeq(D, 1, Len(D) - 1)) \o "\n" \o C8_Message(D[Len(D)])

\* C8: when the engine returned at least one deny result, the message of the
\* response is the strings "[denied by <constraint-name>] <message>", one for
\* each deny result and none for another result, in the order of the results,
\* joined by a newline; the list of deny messages has as many entries as there
\* are deny results.
C8_DenyMessage ==
    (pc = "returned" /\ ReviewSucceeded /\ DenyPositions(resp) # {}) =>
        LET D == SelectSeq(resp, IsDeny)
            msgs == getDenyMessages(resp, req)
        IN /\ response.reason = C8_Lines(D)
           /\ Len(msgs) = Cardinality(DenyPositions(resp))
           /\ \A i \in 1..Len(D) : msgs[i] = C8_Message(D[i])

\* two deny results: two lines, in the order of the results
C8_Witness ==
    /\ pc = "returned"
    /\ ReviewSucceeded
    /\ Len(resp) = 2
    /\ resp[1].Constraint.name = "need-owner"
    /\ resp[2].Constraint.name = "no-privileged"
    /\ response.reason =
         "[denied by need-owner] missing label owner\n[denied by no-privileged] privileged containers forbidden"

----------------------------------------------------------------------------
(* C9 *)

\* C9: the uncached read of the namespace is made only right after a cached
\* read that returned not-found; after a cached read that succeeded or failed
\* otherwise there is no uncached read, and in the latter case the request
\* ends with the outcome error; an error of the uncached read, not-found or
\* other, ends the request with the outcome error as well.
C9_FallbackOnlyOnNotFound ==
    \A i \in 1..Len(calls) :
        /\ calls[i].op = "reader.Get namespace" =>
            /\ i > 1
            /\ calls[i - 1].op = "client.Get namespace"
            /\ calls[i - 1].err.set
            /\ calls[i - 1].err.notFound
            /\ req.namespace # ""
        /\ (calls[i].op = "client.Get namespace"
                /\ ~(calls[i].err.set /\ calls[i].err.notFound)) =>
            ~Called("reader.Get namespace")
        /\ (\/ calls[i].op = "client.Get namespace" /\ calls[i].err.set
                                                    /\ ~calls[i].err.notFound
            \/ calls[i].op = "reader.Get namespace" /\ calls[i].err.set) =>
            /\ i = Len(calls)
            /\ pc \in {"result", "returned"}
            /\ pc = "returned" => (requestResponse = "error" /\ ~response.allowed)

\* not-found from the cache, not-found from the store: the request ends in error
C9_Witness ==
    /\ pc = "returned"
    /\ Len(calls) >= 2
    /\ calls[Len(calls) - 1] = Call("client.Get namespace", ErrNamespaceNotFound)
    /\ calls[Len(calls)] = Call("reader.Get namespace", ErrNamespaceNotFound)
    /\ requestResponse = "error"

----------------------------------------------------------------------------
(* C10 *)

\* the config could not be resolved: neither an injected config nor a client,
\* or the read of the config object returned an error
ConfigResolutionFailed ==
    \/ h.injectedConfig.nil /\ ~h.client
    \/ \E i \in 1..Len(calls) : calls[i].op = "client.Get config" /\ calls[i].err.set

\* tracingLevel was entered
TracingLevelEntered ==
    \/ pc \in {"getNamespace", "getNamespaceUncached", "review", "result", "panicked"}
    \/ pc = "returned" /\ requestResponse \in {"error", "deny", "allow"}

\* C10: a failed config resolution does not change the admission outcome: the
\* tracing directive is {enabled:false, dump:false}, and the pipeline goes on
\* to the namespace augmentation and the engine, so that a request that needs
\* no namespace read reaches the engine's Review and is answered by its results.
C10_ConfigFailureTolerated ==
    (ConfigResolutionFailed /\ TracingLevelEntered) =>
        /\ tracing = [trace |-> FALSE, dump |-> FALSE]
        /\ reviewNamespace(req) = "" => pc # "panicked"
        /\ (Left /\ reviewNamespace(req) = "") =>
            /\ Called("opa.Review")
            /\ response.present
            /\ requestResponse # "unknown"

----------------------------------------------------------------------------
(* C11 *)

\* the results that are violations to report: action deny or dryrun
C11_Reported(res) == SelectSeq(res, LAMBDA r : r.EnforcementAction \in {"deny", "dryrun"})

\* C11: for the result list handed to getDenyMessages, there is one log entry
\* for each result of action deny or dryrun when deny-logging is on and none
\* when it is off; one warning event for each such result when event emission
\* is on and none when it is off, of reason DryrunViolation for a dryrun and
\* FailedAdmission for a deny; a result of another action gives no log, no
\* event and no deny message; when every result is a dryrun the request is
\* allowed.
C11_LogsAndEventsPerResult ==
    (pc = "returned" /\ ReviewSucceeded) =>
        LET V == C11_Reported(resp)
        IN /\ Len(violationLogs) = IF logDenies THEN Len(V) ELSE 0
           /\ Len(events) = IF emitAdmissionEvents THEN Len(V) ELSE 0
           /\ \A i \in 1..Len(violationLogs) :
                /\ violationLogs[i].constraint_name = V[i].Constraint.name
                /\ violationLogs[i].constraint_action = V[i].EnforcementAction
           /\ \A i \in 1..Len(events) :
                /\ events[i].type = "Warning"
                /\ events[i].constraint_name = V[i].Constraint.name
                /\ events[i].reason =
                     IF V[i].EnforcementAction = "dryrun" THEN "DryrunViolation"
                     ELSE "FailedAdmission"
           /\ Len(getDenyMessages(resp, req)) = Cardinality(DenyPositions(resp))
           /\ (\A i \in 1..Len(resp) : resp[i].EnforcementAction = "dryrun") =>
                (response.allowed /\ requestResponse = "allow")

\* a dryrun and a warn result with both flags on: one log entry, one event of
\* reason DryrunViolation, and the request is allowed
C11_Witness ==
    /\ pc = "returned"
    /\ ReviewSucceeded
    /\ logDenies
    /\ emitAdmissionEvents
    /\ Len(resp) = 2
    /\ resp[1].EnforcementAction = "dryrun"
    /\ resp[2].EnforcementAction = "warn"
    /\ Len(violationLogs) = 1
    /\ Len(events) = 1
    /\ events[1].reason = "DryrunViolation"
    /\ response.allowed

----------------------------------------------------------------------------
(* C12 *)

\* the tag that names the terminal state of a returned response: skip for the
\* exclusion filter, error for status 500, deny for status 403, allow otherwise
C12_TerminalTag ==
    IF response.code = 500 THEN "error"
    ELSE IF response.code = 403 THEN "deny"
    ELSE IF NamespaceExcluded THEN "skip"
    ELSE "allow"

\* C12: for a request that reached the exclusion filter or went further, the
\* outcome tag handed to the reporter matches the terminal state reached
\* (skip, error, deny, allow) and is never unknown.
C12_TagMatchesTerminal ==
    (Left /\ deferred) =>
        /\ requestResponse # "unknown"
        /\ requestResponse = C12_TerminalTag
        /\ h.reporter => reported = <<requestResponse>>

\* What the code provides instead: whenever Handle of mutation.go returns a
\* response past the three first checks, the tag recorded is the one of the
\* terminal state; unknown is recorded only when Handle is left by a panic.
TagMatchesOnReturn ==
    /\ (pc = "returned" /\ deferred) =>
        /\ requestResponse = C12_TerminalTag
        /\ h.reporter => reported = <<requestResponse>>
    /\ (pc = "panicked" /\ h.reporter) => reported = <<"unknown">>

----------------------------------------------------------------------------
(* C13 *)

\* the engine's Review was called and returned an error
ReviewFailed == \E i \in 1..Len(calls) : calls[i].op = "opa.Review" /\ calls[i].err.set

\* the diagnostic line was logged
Logged(line) == \E i \in 1..Len(diag) : diag[i] = line

\* C13: the engine's trace dump is logged only when Review succeeded and
\* tracing was enabled; when Review returned an error, reviewRequest returns
\* that error without logging the engine's response and without asking for
\* the engine's state dump.
C13_NoDiagnosticsOnReviewError ==
    /\ Logged("trace dump") => (ReviewSucceeded /\ tracing.trace)
    /\ ReviewFailed =>
        /\ ~Logged("trace dump")
        /\ ~Called("opa.Dump")
        /\ err.set

\* What the code provides instead: the trace dump is logged whenever Review
\* was called with tracing enabled, and the state dump is asked for whenever
\* the directive says dump, whether Review failed or not; the error returned
\* is the one of Review.
DiagnosticsWhateverReviewReturns ==
    Called("opa.Review") =>
        /\ Logged("trace dump") <=> tracing.trace
        /\ Called("opa.Dump") <=> tracing.dump
        /\ ReviewFailed <=> err.set

----------------------------------------------------------------------------
(* C14 *)

\* the engine's state dump was asked for and failed
DumpFailed == \E i \in 1..Len(calls) : calls[i].op = "opa.Dump" /\ calls[i].err.set

\* the position of the engine's Review among the calls
ReviewCall == (CHOOSE i \in 1..Len(calls) : calls[i].op = "opa.Review")

\* the response and the outcome tag that the results and the error of Review
\* dictate, whatever Dump returned
C14_Outcome ==
    IF ReviewFailed
    THEN [rsp |-> WithCode(ValidationResponse(FALSE, calls[ReviewCall].err.text),
                           StatusInternalServerError),
          tag |-> mutationErrorResponse]
    ELSE IF DenyPositions(resp) # {}
    THEN [rsp |-> WithCode(ValidationResponse(FALSE, Join(getDenyMessages(resp, req), "\n")),
                           StatusForbidden),
          tag |-> mutationDenyResponse]
    ELSE [rsp |-> ValidationResponse(TRUE, ""), tag |-> mutationAllowResponse]

\* C14: a failure of the engine's state dump never changes the admission
\* outcome: once Dump was called, the error reviewRequest returns is exactly
\* the error of Review, and the response and outcome tag of Handle are the
\* ones the results and the error of Review dictate, the same whether Dump
\* succeeded or failed.
C14_DumpFailureHarmless ==
    Called("opa.Dump") =>
        /\ err.set <=> ReviewFailed
        /\ err = calls[ReviewCall].err
        /\ pc = "returned" =>
            /\ response = C14_Outcome.rsp
            /\ requestResponse = C14_Outcome.tag

C14_Witness ==
    /\ pc = "returned"
    /\ DumpFailed
    /\ ReviewSucceeded
    /\ response.allowed

----------------------------------------------------------------------------
(* C15: tracingLevel on its own, over every short list of trace specs *)

TraceUsers == {"alice", "bob"}

TraceKinds == {PodKind, NamespaceKind}

\* the dump levels of a trace spec: spellings of All, none, and another level
TraceDumps == {"All", "ALL", "", "None"}

TraceSpecs == { Trace(u, k, d) : u \in TraceUsers, k \in TraceKinds, d \in TraceDumps }

TracingRequests ==
    { r \in Requests : r.operation = "CREATE" /\ r.namespace = "" /\ r.object.nil }
        \cup { [operation |-> "CREATE", userInfo |-> [username |-> "bob"], kind |-> k,
                namespace |-> "", name |-> "", object |-> NilRaw] : k \in TraceKinds }

\* a handler whose config is injected, and a request at the entry of tracingLevel
InitTracing ==
    /\ h \in [reporter : {FALSE}, client : {FALSE},
              injectedConfig : { Config(t) : t \in SeqUpTo(TraceSpecs, MaxTraces) }]
    /\ logDenies = FALSE
    /\ emitAdmissionEvents = FALSE
    /\ processExcluder \in Excluders
    /\ pc = "tracingLevel"
    /\ req \in TracingRequests
    /\ deferred = TRUE
    /\ requestResponse = mutationUnknownResponse
    /\ reported = <<>>
    /\ response = NoResponse
    /\ tracing = [trace |-> FALSE, dump |-> FALSE]
    /\ resp = <<>>
    /\ err = NoError
    /\ calls = <<>>
    /\ diag = <<>>
    /\ violationLogs = <<>>
    /\ events = <<>>
    /\ decodes = 0
    /\ parked = IdleLocals

SpecTracing == InitTracing /\ [][TracingLevel]_vars

\* the trace spec matches the request: same user, same group/version/kind
MatchesRequest(trace, r) ==
    /\ trace.user = r.userInfo.username
    /\ trace.kind.group = r.kind.group
    /\ trace.kind.version = r.kind.version
    /\ trace.kind.kind = r.kind.kind

\* the spellings of All among the dump levels
SpellsAll(d) == d \in {"All", "ALL", "all"}

PermutationsOf(n) == { p \in [1..n -> 1..n] : \A i, j \in 1..n : p[i] = p[j] => i = j }

Permuted(traces, p) == [i \in 1..Len(traces) |-> traces[p[i]]]

\* tracingLevel has returned
TracingLevelReturned == pc \in {"getNamespace", "review"}

\* C15: tracingLevel over any list of trace specs returns enabled=true iff
\* some spec has the requester's username and the request's group/version/
\* kind (both exact), and dump=true iff some such matching spec has a dump
\* level that equals All whatever the case; so dump=true implies
\* enabled=true, a spec matching only the user or only the kind enables
\* nothing, and the result is the same for every order of the specs.
C15_TracingLevel ==
    TracingLevelReturned =>
        LET traces == h.injectedConfig.traces
            n == Len(traces)
        IN /\ tracing.trace <=> \E i \in 1..n : MatchesRequest(traces[i], req)
           /\ tracing.dump <=> \E i \in 1..n : /\ MatchesRequest(traces[i], req)
                                               /\ SpellsAll(traces[i].dump)
           /\ tracing.dump => tracing.trace
           /\ \A p \in PermutationsOf(n) :
                tracingLevel(Config(Permuted(traces, p)), req) = tracing

\* a matching spec with dump ALL is followed by a matching spec without dump,
\* after a spec that matches the user only
C15_Witness ==
    /\ TracingLevelReturned
    /\ LET traces == h.injectedConfig.traces
       IN /\ Len(traces) = 2
          /\ MatchesRequest(traces[1], req) /\ traces[1].dump = "ALL"
          /\ MatchesRequest(traces[2], req) /\ traces[2].dump = ""
    /\ tracing = [trace |-> TRUE, dump |-> TRUE]

----------------------------------------------------------------------------
(* C16 *)

\* C16: the raw object is decoded for a resource name only when the result
\* list is not empty, deny-logging or event emission is on, the name of the
\* request is empty and the raw payload is present; it is decoded at most
\* once for a request; when the decoding fails the resource name is empty,
\* and the deny messages and the admission outcome are the ones the results
\* dictate.
C16_DecodeOnlyWhenNeeded ==
    /\ decodes <= 1
    /\ decodes = 1 =>
        /\ ReviewSucceeded
        /\ Len(resp) > 0
        /\ logDenies \/ emitAdmissionEvents
        /\ req.name = ""
        /\ ~req.object.nil
    /\ (decodes = 1 /\ ~req.object.decodable) =>
        /\ \A i \in 1..Len(violationLogs) : violationLogs[i].resource_name = ""
        /\ \A i \in 1..Len(events) : events[i].resource_name = ""
        /\ pc = "returned"
        /\ LET D == SelectSeq(resp, IsDeny)
           IN IF D = <<>>
              THEN response = ValidationResponse(TRUE, "")
              ELSE /\ ~response.allowed
                   /\ response.code = StatusForbidden
                   /\ response.reason = C8_Lines(D)

\* a payload that does not decode, for a request that is denied and logged
C16_Witness ==
    /\ pc = "returned"
    /\ decodes = 1
    /\ req.object = BadRaw
    /\ ~response.allowed
    /\ Len(violationLogs) > 0

----------------------------------------------------------------------------
(* C17 *)

\* the call op was made and aborted with the cancellation error
Cancelled(op) ==
    \E i \in 1..Len(calls) : calls[i].op = op /\ calls[i].err = ErrCanceled

ErrorTerminal ==
    /\ pc = "returned"
    /\ ~response.allowed
    /\ response.code = StatusInternalServerError
    /\ requestResponse = mutationErrorResponse

\* C17: when a sub-call (the config read, the cached or the uncached
\* namespace read, the engine's Review) aborts with a cancellation error,
\* Handle terminates and the request ends in the Error terminal
\* (allowed=false, status 500, outcome error); it does not hang and does not
\* end in allow or deny.
C17_CancelledEndsInError ==
    (\/ Cancelled("client.Get config")
     \/ Cancelled("client.Get namespace")
     \/ Cancelled("reader.Get namespace")
     \/ Cancelled("opa.Review")) =>
        /\ pc # "panicked"
        /\ pc # "returned" => ENABLED Next
        /\ pc = "returned" => ErrorTerminal

\* C17, for the calls whose error reviewRequest returns: after a cancelled
\* namespace read or a cancelled Review nothing is left but the error branch
\* of Handle, which is enabled, and Handle returns the Error terminal with
\* the cancellation error as its message.
C17_CancelledReadOrReviewEndsInError ==
    (\/ Cancelled("client.Get namespace")
     \/ Cancelled("reader.Get namespace")
     \/ Cancelled("opa.Review")) =>
        /\ pc \in {"result", "returned"}
        /\ err = ErrCanceled
        /\ pc = "result" => ENABLED HandleError /\ ~ENABLED HandleResults
        /\ pc = "returned" => ErrorTerminal /\ response.reason = ErrCanceled.text

\* a cancelled config read is dropped by tracingLevel: the request goes on
\* and ends as the later calls dictate
ConfigCancellationDropped ==
    (Cancelled("client.Get config") /\ pc = "returned") =>
        (ErrorTerminal <=> FailedCalls # {})

C17_Witness ==
    /\ ErrorTerminal
    /\ Cancelled("reader.Get namespace")
    /\ response.reason = "context canceled"

----------------------------------------------------------------------------
(* C19 *)

\* the calls Handle makes to the object store and to the engine
SubCalls ==
    {"client.Get config", "client.Get namespace", "reader.Get namespace",
     "opa.Review", "opa.Dump"}

Issued(op) == { i \in 1..Len(calls) : calls[i].op = op }

\* C19: no retries: in one invocation of Handle there is at most one config
\* read, at most one cached namespace read, at most one uncached namespace
\* read, at most one Review and at most one Dump; a call that failed is not
\* issued again.
C19_NoRetries ==
    /\ \A i \in 1..Len(calls) : calls[i].op \in SubCalls
    /\ \A op \in SubCalls : Cardinality(Issued(op)) <= 1
    /\ \A i, j \in 1..Len(calls) :
        (i < j /\ calls[i].err.set) => calls[j].op # calls[i].op

\* every call was made once, three of them failed
C19_Witness ==
    /\ pc = "returned"
    /\ \A op \in SubCalls : Cardinality(Issued(op)) = 1
    /\ Cardinality({ i \in 1..Len(calls) : calls[i].err.set }) = 3

----------------------------------------------------------------------------
(* C20: the two versions of Handle, the later one calling mutateRequest *)

\* mutant: mutateRequest returns an error next to its response
mutateRequest_failing(r) ==
    [rsp |-> [present |-> TRUE, allowed |-> TRUE, code |-> StatusOK, reason |-> ""],
     err |-> ErrEngine]

\* mutateRequest of the later version: an allowing response without patches,
\* and no error
mutateRequest(r) ==
    [rsp |-> [present |-> TRUE, allowed |-> TRUE, code |-> StatusOK, reason |-> ""],
     err |-> NoError]

\* Handle of the later version, after the exclusion filter: the call of
\* mutateRequest, its error branch and the return of its response; the outcome
\* tag is left as it is
MutateRequest ==
    /\ pc = "tracingLevel"
    /\ LET out == mutateRequest(req)
       IN /\ err' = out.err
          /\ IF out.err.set
             THEN /\ diag' = Append(diag, "error executing query")
                  /\ Return([present |-> TRUE, allowed |-> TRUE,
                             code |-> StatusInternalServerError, reason |-> ""],
                            requestResponse)
             ELSE /\ diag' = diag
                  /\ Return(out.rsp, requestResponse)
    /\ UNCHANGED <<config, parked, req, deferred, tracing, resp, calls, violationLogs,
                   events, decodes>>

NextWithMutate == Next \/ MutateRequest

SpecWithMutate == Init /\ [][NextWithMutate]_vars

\* C20: in every response of Handle, on whatever exit path of either version,
\* the allowed flag and the status code agree: allowed=true exactly when the
\* code is 200, allowed=false exactly when the code is 403 or 500; no
\* response has allowed=true with the code 500.
C20_AllowedAgreesWithCode ==
    /\ pc = "returned" => response.present
    /\ response.present =>
        /\ response.allowed <=> response.code = StatusOK
        /\ ~response.allowed <=>
            response.code \in {StatusForbidden, StatusInternalServerError}
        /\ ~(response.allowed /\ response.code = StatusInternalServerError)

\* the response of mutateRequest was returned: past the exclusion filter, no
\* call made, the tag still unknown
C20_Witness ==
    /\ pc = "returned"
    /\ deferred
    /\ calls = <<>>
    /\ requestResponse = mutationUnknownResponse
    /\ response.allowed
    /\ response.code = StatusOK

\* the later version records unknown for every request that passes the filters
MutateRecordedAsUnknown ==
    (pc = "returned" /\ deferred /\ calls = <<>> /\ ~NamespaceExcluded /\ h.reporter)
        => reported = <<mutationUnknownResponse>>

----------------------------------------------------------------------------
(* C18: two invocations of Handle on one handler, interleaved *)

\* mutant: the outcome tag is a field of the handler, one for all invocations
Switch_sharedTag ==
    /\ parked' = Locals
    /\ pc' = parked.pc
    /\ req' = parked.req
    /\ deferred' = parked.deferred
    /\ response' = parked.response
    /\ tracing' = parked.tracing
    /\ resp' = parked.resp
    /\ err' = parked.err
    /\ calls' = parked.calls
    /\ decodes' = parked.decodes
    /\ UNCHANGED <<config, requestResponse, reported, diag, violationLogs, events>>

\* the scheduler leaves the running invocation where it is and runs the other
\* one: the locals of Handle and reviewRequest go with their invocation, the
\* handler, the flags and the sinks are the same for both
Switch ==
    /\ parked' = Locals
    /\ pc' = parked.pc
    /\ req' = parked.req
    /\ deferred' = parked.deferred
    /\ requestResponse' = parked.requestResponse
    /\ response' = parked.response
    /\ tracing' = parked.tracing
    /\ resp' = parked.resp
    /\ err' = parked.err
    /\ calls' = parked.calls
    /\ decodes' = parked.decodes
    /\ UNCHANGED <<config, reported, diag, violationLogs, events>>

\* the requests of the two invocations: a Pod in a namespace, and a Namespace
ConcurrentRequests ==
    { r \in Requests :
        /\ r.operation = "CREATE"
        /\ r.userInfo.username = "alice"
        /\ \/ r.kind = PodKind /\ r.namespace = "kube-system" /\ r.name = "web"
           \/ r.kind = NamespaceKind /\ r.namespace = "" /\ r.object.nil }

\* one handler with a reporter, a client and a config that traces the
\* Namespace requests of alice; events are emitted
InitConcurrent ==
    /\ h = [reporter |-> TRUE, client |-> TRUE,
            injectedConfig |-> Config(<<Trace("alice", NamespaceKind, "")>>)]
    /\ logDenies = FALSE
    /\ emitAdmissionEvents = TRUE
    /\ processExcluder = [webhook |-> {}, audit |-> {"kube-system"}]
    /\ pc = "idle"
    /\ req = NoRequest
    /\ deferred = FALSE
    /\ requestResponse = "none"
    /\ reported = <<>>
    /\ response = NoResponse
    /\ tracing = [trace |-> FALSE, dump |-> FALSE]
    /\ resp = <<>>
    /\ err = NoError
    /\ calls = <<>>
    /\ diag = <<>>
    /\ violationLogs = <<>>
    /\ events = <<>>
    /\ decodes = 0
    /\ parked = IdleLocals

NextConcurrent ==
    \/ \E r \in ConcurrentRequests : HandleStart(r)
    \/ SelfManagementCheck
    \/ OperationCheck
    \/ GatekeeperResourceCheck
    \/ ExcludedNamespaceCheck
    \/ TracingLevel
    \/ GetNamespace
    \/ GetNamespaceUncached
    \/ Review
    \/ HandleError
    \/ HandleResults
    \/ Switch

SpecConcurrent == InitConcurrent /\ [][NextConcurrent]_vars

\* the calls of an invocation whose error reviewRequest returns
FailedIn(cs) ==
    SelectSeq(cs, LAMBDA c :
        /\ c.err.set
        /\ \/ c.op = "client.Get namespace" /\ ~IsNotFound(c.err)
           \/ c.op = "reader.Get namespace"
           \/ c.op = "opa.Review")

\* the response and the outcome tag of a request handled alone, given what
\* its sub-calls returned: the calls cs with their errors, the results res
AloneOutcome(r, cs, res) ==
    IF isGkServiceAccount(r.userInfo)
    THEN [rsp |-> ValidationResponse(TRUE, "Gatekeeper does not self-manage"),
          tag |-> "none"]
    ELSE IF notCreateOrUpdate(r)
    THEN [rsp |-> ValidationResponse(TRUE, "Mutating only on create"), tag |-> "none"]
    ELSE IF isGatekeeperResource(r)
    THEN [rsp |-> ValidationResponse(TRUE, "Not mutating gatekeeper resources"),
          tag |-> "none"]
    ELSE IF skipExcludedNamespace(r.namespace)
    THEN [rsp |-> ValidationResponse(TRUE,
                      "Namespace is set to be ignored by Gatekeeper config"),
          tag |-> mutationSkipResponse]
    ELSE IF FailedIn(cs) # <<>>
    THEN [rsp |-> WithCode(ValidationResponse(FALSE, FailedIn(cs)[1].err.text),
                           StatusInternalServerError),
          tag |-> mutationErrorResponse]
    ELSE IF SelectSeq(res, IsDeny) # <<>>
    THEN [rsp |-> WithCode(ValidationResponse(FALSE, C8_Lines(SelectSeq(res, IsDeny))),
                           StatusForbidden),
          tag |-> mutationDenyResponse]
    ELSE [rsp |-> ValidationResponse(TRUE, ""), tag |-> mutationAllowResponse]

\* the invocation with locals l has returned what it returns alone
AsAlone(l) ==
    l.pc = "returned" =>
        /\ l.response = AloneOutcome(l.req, l.calls, l.resp).rsp
        /\ l.requestResponse = AloneOutcome(l.req, l.calls, l.resp).tag

\* AloneOutcome is what the single invocation of Spec returns
AloneOutcomeIsHandle == AsAlone(Locals)

\* the tracing directive of the invocation is the one of its own request
OwnTracing(l) ==
    l.calls # <<>> => l.tracing = tracingLevel(h.injectedConfig, l.req)

\* the tags of the invocations that have run their deferred closure
TagsDue(ls) ==
    SelectSeq(ls, LAMBDA l : l.pc \in {"returned", "panicked"} /\ l.deferred /\ h.reporter)

\* C18: invocations of Handle that run at the same time do not interfere:
\* under every interleaving of two invocations, the response of each and the
\* outcome tag each reports are the ones of that request handled alone with
\* the same results of its sub-calls; the outcome tag, the tracing directive,
\* the results and the error are state of the invocation, and the handler
\* writes to nothing shared but the sinks.
C18_NoInterference ==
    /\ AsAlone(Locals)
    /\ AsAlone(parked)
    /\ OwnTracing(Locals)
    /\ OwnTracing(parked)
    /\ LET due == TagsDue(<<Locals, parked>>)
           tags == [i \in 1..Len(due) |-> due[i].requestResponse]
       IN \/ reported = tags
          \/ Len(tags) = 2 /\ reported = <<tags[2], tags[1]>>

\* both invocations are between reviewRequest and their response: the traced
\* one holds deny results, the other one an error
C18_Witness ==
    /\ pc = "result"
    /\ tracing.trace
    /\ ~err.set
    /\ SelectSeq(resp, IsDeny) # <<>>
    /\ parked.pc = "result"
    /\ ~parked.tracing.trace
    /\ parked.err = ErrCanceled

\* both invocations have returned, each with its own outcome
BothReturned ==
    /\ pc = "returned"
    /\ parked.pc = "returned"
    /\ reported = <<mutationDenyResponse, mutationErrorResponse>>
    /\ requestResponse = mutationErrorResponse
    /\ parked.requestResponse = mutationDenyResponse

====
